---- MODULE Spec2Model ----
(***************************************************************************)
(* fint-webhook-deployer (src/index.js): a webhook server that, for every  *)
(* POST carrying a `package`, stops and removes the containers running the *)
(* package's image, pulls the image, and runs a new container.             *)
(*                                                                         *)
(* Strings the code computes with (package, version, image reference,      *)
(* container name) are sequences of one-character strings, so substring,   *)
(* indexOf and concatenation are computed as the code computes them.       *)
(* Error reasons and response bodies are TLA+ strings.                     *)
(***************************************************************************)
EXTENDS Naturals, Sequences, FiniteSets, TLC

----------------------------------------------------------------------------
(* Bounds of the model *)

\* number of containers on the host before the first webhook arrives
MaxInitial == 2

\* number of webhook requests the server can have in flight (ids 1..MaxDeploys)
MaxDeploys == 2

Deploys == 1..MaxDeploys

----------------------------------------------------------------------------
(* Strings *)

Slash == "/"
Colon == ":"

\* package names a webhook may carry
Packages == { <<"s">>, <<"o", Slash, "s">>, <<"a", Slash, "b", Slash, "s">> }

\* version tags a webhook may carry
Versions == { <<"2">> }

\* a field of the decoded JSON body: absent (undefined) or a string
Undefined == [present |-> FALSE, val |-> <<>>]
Str(s)    == [present |-> TRUE, val |-> s]

\* JavaScript truthiness of a body field: undefined and '' are falsy
Truthy(f) == f.present /\ f.val # <<>>

\* String.prototype.indexOf(ch), 0-based, -1 when absent; returned +1 so that
\* the result is a natural number: IndexOfPlus1(s, ch) = s.indexOf(ch) + 1
IndexOfPlus1(s, ch) ==
    IF \E i \in 1..Len(s) : s[i] = ch
    THEN CHOOSE i \in 1..Len(s) : s[i] = ch /\ \A j \in 1..(i - 1) : s[j] # ch
    ELSE 0

\* String.prototype.substring(start) with a 0-based start
SubstringFrom(s, start) == SubSeq(s, start + 1, Len(s))

\* index.js:112  var name = pkgName.substring(pkgName.indexOf('/') + 1);
ContainerName(pkgName) == SubstringFrom(pkgName, IndexOfPlus1(pkgName, Slash))

\* variant of PullReference that drops the version tag
PullReferenceUntagged(pkgName, version) == pkgName

\* index.js:191  pkgName + (version ? ':' + version : '')
PullReference(pkgName, version) ==
    pkgName \o (IF Truthy(version) THEN <<Colon>> \o version.val ELSE <<>>)

\* index.js:119  docker.run(pkgName, ...): the image the new container runs
RunReference(pkgName, version) == pkgName

\* index.js:152  containerInfo.Image === pkgName
ImageMatches(containerInfo, pkgName) == containerInfo.image = pkgName

----------------------------------------------------------------------------
(* Promises (Q.defer) *)

Pending        == [state |-> "pending",   reason |-> ""]
Fulfilled      == [state |-> "fulfilled", reason |-> ""]
Rejected(err)  == [state |-> "rejected",  reason |-> err]

\* deferred.resolve(): a settled promise keeps its state
Resolve(p) == IF p.state = "pending" THEN Fulfilled ELSE p

\* variant of Reject that overwrites a settled promise
RejectAlways(p, err) == Rejected(err)

\* deferred.reject(err): a settled promise keeps its state
Reject(p, err) == IF p.state = "pending" THEN Rejected(err) ELSE p

----------------------------------------------------------------------------
(* Container engine *)

\* images of the containers found on the host at start
HostImages == { <<"s">>, <<"o", Slash, "s">>, <<"o", Slash, "s", Colon, "2">> }

Digits == <<"1", "2", "3", "4", "5", "6", "7", "8", "9">>

\* a container name given by an operator, never one the deployer derives
ForeignName(i) == <<"c", Digits[i]>>

\* names of the i-th container found on the host at start: the engine keeps
\* names unique; the first may carry the name the deployer gives to "s"/"o/s"
HostNames(i) == IF i = 1 THEN { <<"s">>, ForeignName(i) } ELSE { ForeignName(i) }

ContainerStates == { "running", "exited" }

\* id of the container created by the run request of deployment d
NewId(d) == MaxInitial + d

\* the host's possible contents at start: n <= MaxInitial containers, ids 1..n
InitialHosts ==
    UNION { { { [id |-> i, image |-> f[i].image, name |-> f[i].name, state |-> f[i].state]
                : i \in 1..n }
              : f \in { g \in [1..n -> [image : HostImages,
                                        name  : UNION { HostNames(i) : i \in 1..n },
                                        state : ContainerStates]] :
                          \A i \in 1..n : g[i].name \in HostNames(i) } }
            : n \in 0..MaxInitial }

\* docker.listContainers(cb) with no options: the engine reports the running
\* containers only (index.js:142)
ListedContainers(h) == { c \in h : c.state = "running" }

\* engine-side effect of container.kill (index.js:155)
KillPossible(h, cid) == \E c \in h : c.id = cid /\ c.state = "running"
Killed(h, cid) ==
    { IF c.id = cid THEN [c EXCEPT !.state = "exited"] ELSE c : c \in h }

\* engine-side effect of container.remove (index.js:158): no force option,
\* so only a container that is not running can be removed
RemovePossible(h, cid) == \E c \in h : c.id = cid /\ c.state = "exited"
Removed(h, cid) == { c \in h : c.id # cid }

\* engine-side effect of docker.run (index.js:119): a container name already
\* in use is refused
RunPossible(h, name) == \A c \in h : c.name # name
Started(h, cid, image, name) ==
    h \cup { [id |-> cid, image |-> image, name |-> name, state |-> "running"] }

\* error values the engine reports
ListError    == "list failed"
KillError    == "kill failed"
RemoveError  == "remove failed"
PullError    == "pull failed"
StreamError  == "pull stream failed"
RunError     == "run failed"
NameConflict == "name already in use"

----------------------------------------------------------------------------
(* State *)

VARIABLES
    host,       \* the engine's containers: set of [id, image, name, state]
    host0,      \* the engine's containers when the server started
    crashed,    \* the server process died of an uncaught exception
    request,    \* request[d]: the webhook request d, once received
    responses,  \* responses[d]: the bodies written with res.end, in order
    listOp,     \* listOp[d]: docker.listContainers of dockerStop
    listed,     \* listed[d]: the containers the listing reported
    killOp,     \* killOp[d][c]: container.kill of container c
    removeOp,   \* removeOp[d][c]: container.remove of container c
    pullOp,     \* pullOp[d]: docker.pull and the following of its stream
    pullRef,    \* pullRef[d]: the image reference given to docker.pull
    runOp,      \* runOp[d]: docker.run
    runArgs,    \* runArgs[d]: the image and the name given to docker.run
    stopP,      \* stopP[d]: dockerStop's promise containerStopped
    pullP,      \* pullP[d]: dockerPull's promise imagePulled
    allP,       \* allP[d]: the promise of Q.all([stop, pull])
    deployP,    \* deployP[d]: dockerDeploy's promise deployCompleted
    errors,     \* errors[d]: the errors the engine reported to d, in order
    incoming,   \* the webhook requests sent to the server and not yet received
    deployCalls,\* deployCalls[d]: the calls of dockerDeploy made for request d
    calls       \* calls[d]: the engine requests issued for d, in order

engineVars  == <<host, crashed>>
httpVars    == <<request, responses>>
stopVars    == <<listOp, listed, killOp, removeOp, stopP>>
pullVars    == <<pullOp, pullRef, pullP>>
joinVars    == <<allP, deployP, runOp, runArgs>>
vars == <<host, crashed, request, responses, listOp, listed, killOp, removeOp,
          pullOp, pullRef, runOp, runArgs, stopP, pullP, allP, deployP, errors,
          incoming, deployCalls, calls, host0>>

AllIds == 1..(MaxInitial + MaxDeploys)

NoRequest == [received |-> FALSE, method |-> "", package |-> Undefined,
              version |-> Undefined]

NoRun == [image |-> <<>>, name |-> <<>>]

\* an engine request as recorded in calls: the operation, the container it
\* targets (0: none), the image reference and the container name it carries
Call(op, target, ref, name) == [op |-> op, target |-> target, ref |-> ref, name |-> name]
ListCall          == Call("list", 0, <<>>, <<>>)
PullCall(ref)     == Call("pull", 0, ref, <<>>)
KillCall(c)       == Call("kill", c, <<>>, <<>>)
RemoveCall(c)     == Call("remove", c, <<>>, <<>>)
RunCall(ref, name) == Call("run", 0, ref, name)

Methods == { "POST", "GET" }

\* the `package` and `version` fields a request body may carry
PackageFields == { Undefined, Str(<<>>) } \cup { Str(p) : p \in Packages }
VersionFields == { Undefined, Str(<<>>) } \cup { Str(v) : v \in Versions }

\* the state once setupServer listens, with the webhooks `sent` on their way
InitWith(sent) ==
    /\ host \in InitialHosts
    /\ host0 = host
    /\ crashed = FALSE
    /\ incoming = sent
    /\ request = [d \in Deploys |-> NoRequest]
    /\ responses = [d \in Deploys |-> <<>>]
    /\ listOp = [d \in Deploys |-> "idle"]
    /\ listed = [d \in Deploys |-> {}]
    /\ killOp = [d \in Deploys |-> [c \in AllIds |-> "idle"]]
    /\ removeOp = [d \in Deploys |-> [c \in AllIds |-> "idle"]]
    /\ pullOp = [d \in Deploys |-> "idle"]
    /\ pullRef = [d \in Deploys |-> <<>>]
    /\ runOp = [d \in Deploys |-> "idle"]
    /\ runArgs = [d \in Deploys |-> NoRun]
    /\ stopP = [d \in Deploys |-> Pending]
    /\ pullP = [d \in Deploys |-> Pending]
    /\ allP = [d \in Deploys |-> Pending]
    /\ deployP = [d \in Deploys |-> Pending]
    /\ errors = [d \in Deploys |-> <<>>]
    /\ deployCalls = [d \in Deploys |-> <<>>]
    /\ calls = [d \in Deploys |-> <<>>]

\* a single webhook is delivered
Init == InitWith({1})

----------------------------------------------------------------------------
(* dockerDeploy: the join of the two forks, the run request, the response *)

\* variant of Dispatches that forgets the method: any request with a package
DispatchesAnyMethod(method, package) == Truthy(package)

\* variant of Dispatches that holds a webhook back while the engine requests
\* of another deployment are outstanding
DispatchesOneAtATime(method, package) ==
    /\ method = "POST" /\ Truthy(package)
    /\ \A e \in Deploys :
          /\ listOp[e] # "pending"
          /\ pullOp[e] \notin { "requested", "streaming" }
          /\ runOp[e] # "pending"
          /\ \A c \in AllIds : killOp[e][c] # "pending" /\ removeOp[e][c] # "pending"

\* index.js:78  req.method === 'POST' && req.body.package
Dispatches(method, package) == method = "POST" /\ Truthy(package)

\* variant of QAll that waits for both forks and ignores their failures
\* (Q.allSettled in the place of Q.all)
QAllSettled(prev, s, p) ==
    IF prev.state # "pending" THEN prev
    ELSE IF s.state # "pending" /\ p.state # "pending" THEN Fulfilled
    ELSE Pending

\* index.js:113-116  Q.all([dockerStop(..), dockerPull(..)]): rejected with the
\* reason of the first promise rejected, fulfilled once both are fulfilled.
\* `prev` is the promise of Q.all before this turn, s and p the forks' promises.
QAll(prev, s, p) ==
    IF prev.state # "pending" THEN prev
    ELSE IF s.state = "rejected" THEN Rejected(s.reason)
    ELSE IF p.state = "rejected" THEN Rejected(p.reason)
    ELSE IF s.state = "fulfilled" /\ p.state = "fulfilled" THEN Fulfilled
    ELSE Pending

\* index.js:117-129: what dockerDeploy's promise becomes when Q.all goes from
\* `prev` to `now`: resolved right after docker.run is called (line 127),
\* rejected with Q.all's reason (line 129)
DeployCompleted(dp, prev, now) ==
    IF prev.state # "pending" THEN dp
    ELSE IF now.state = "fulfilled" THEN Resolve(dp)
    ELSE IF now.state = "rejected" THEN Reject(dp, now.reason)
    ELSE dp

\* index.js:84-90: the body written when dockerDeploy's promise goes from
\* `prev` to `now`: 'OK\n' on fulfilment, 'ERROR\n' + err on rejection
ResponseBodies(prev, now) ==
    IF prev.state # "pending" THEN <<>>
    ELSE IF now.state = "fulfilled" THEN << "OK\n" >>
    ELSE IF now.state = "rejected" THEN << "ERROR\n" \o now.reason >>
    ELSE <<>>

\* variant of RunIssued that calls docker.run in every turn that finds Q.all
\* fulfilled, not only in the turn that fulfils it
RunIssuedAgain(prev, now) == now.state = "fulfilled"

\* index.js:117-119: the then-callback of Q.all calls docker.run
RunIssued(prev, now) == prev.state = "pending" /\ now.state = "fulfilled"

\* The turn in which a fork's promise settles also runs the callbacks chained
\* on it (Q's queue is flushed before the next engine callback): Q.all, the
\* then/catch of dockerDeploy (117-129) and of the request handler (84-90).
\* stopP' and pullP' are set by the action that uses Join; `made` are the
\* engine requests the turn issued before its promise settled.
Join(d, made) ==
    LET now == QAll(allP[d], stopP'[d], pullP'[d])
        dp  == DeployCompleted(deployP[d], allP[d], now)
    IN  /\ allP' = [allP EXCEPT ![d] = now]
        /\ deployP' = [deployP EXCEPT ![d] = dp]
        /\ responses' = [responses EXCEPT
                            ![d] = @ \o ResponseBodies(deployP[d], dp)]
        /\ IF RunIssued(allP[d], now)
           THEN LET image == RunReference(request[d].package.val, request[d].version)
                    name  == ContainerName(request[d].package.val)
                IN  /\ runOp' = [runOp EXCEPT ![d] = "pending"]
                    /\ runArgs' = [runArgs EXCEPT ![d] = [image |-> image, name |-> name]]
                    /\ calls' = [calls EXCEPT ![d] = @ \o made \o << RunCall(image, name) >>]
           ELSE /\ UNCHANGED <<runOp, runArgs>>
                /\ calls' = [calls EXCEPT ![d] = @ \o made]

\* index.js:85, 89 and 94: each response is written with res.end(body) alone;
\* nothing sets res.statusCode or calls writeHead, so whatever the body, the
\* response leaves with the status node gives by default
DefaultStatusCode == 200
StatusCode(body) == DefaultStatusCode

----------------------------------------------------------------------------
(* The request handler (index.js:76-96) *)

\* A webhook is received: an illegal request is answered at once; a legal one
\* calls dockerDeploy, which calls dockerStop (docker.listContainers) and
\* dockerPull (docker.pull) before it returns.
Receive(d) ==
    /\ ~crashed
    /\ d \in incoming
    /\ incoming' = incoming \ {d}
    /\ \E m \in Methods, pkg \in PackageFields, ver \in VersionFields :
        /\ request' = [request EXCEPT ![d] =
              [received |-> TRUE, method |-> m, package |-> pkg, version |-> ver]]
        /\ IF Dispatches(m, pkg)
           THEN /\ deployCalls' = [deployCalls EXCEPT ![d] =
                      Append(@, [pkgName |-> pkg.val, version |-> ver])]
                /\ listOp' = [listOp EXCEPT ![d] = "pending"]
                /\ pullOp' = [pullOp EXCEPT ![d] = "requested"]
                /\ pullRef' = [pullRef EXCEPT ![d] = PullReference(pkg.val, ver)]
                /\ calls' = [calls EXCEPT ![d] =
                      @ \o << ListCall, PullCall(PullReference(pkg.val, ver)) >>]
                /\ UNCHANGED responses
           ELSE /\ responses' = [responses EXCEPT ![d] = @ \o << "ILLEGAL REQUEST\n" >>]
                /\ UNCHANGED <<listOp, pullOp, pullRef, deployCalls, calls>>
    /\ UNCHANGED <<host, crashed, listed, killOp, removeOp, runOp, runArgs,
                   stopP, pullP, allP, deployP, errors, host0>>

----------------------------------------------------------------------------
(* dockerStop (index.js:139-173) *)

\* variant of Matched that stops at the first match
MatchedFirst(containers, pkgName) ==
    LET hits == { c \in containers : ImageMatches(c, pkgName) }
    IN  IF hits = {} THEN {}
        ELSE { CHOOSE c \in hits : \A o \in hits : o.id <= c.id }

\* index.js:150-153: the listed containers whose image is the package
Matched(containers, pkgName) == { c \in containers : ImageMatches(c, pkgName) }

\* variant of StopAfterListing that resolves without waiting for the kills
StopAfterListingNoWait(p, containers, pkgName) == Resolve(p)

\* index.js:143-147 and 167-170: containerStopped after the listing callback
\* has returned: resolved when nothing is listed or nothing matches
StopAfterListing(p, containers, pkgName) ==
    IF containers = {} \/ Matched(containers, pkgName) = {} THEN Resolve(p) ELSE p

\* index.js:156 and 159: containerStopped after a kill or remove error
StopAfterError(p, err) == Reject(p, err)

\* index.js:162: containerStopped after a container has been removed
StopAfterRemoved(p) == Resolve(p)

\* variant of AfterKill that asks for the removal whatever the kill reported
AfterKillAlways(op, err) == "pending"

\* index.js:155-158: the kill callback asks for the container's removal only
\* when the kill reported no error; `op` is the state of the removal so far
AfterKill(op, err) == IF err THEN op ELSE "pending"

\* docker.listContainers reports an error: the callback ignores `err` and
\* reads containers.length of a missing list (index.js:143), a TypeError that
\* nothing catches: the process dies and containerStopped is never settled.
ListFailed(d) ==
    /\ ~crashed
    /\ listOp[d] = "pending"
    /\ listOp' = [listOp EXCEPT ![d] = "failed"]
    /\ errors' = [errors EXCEPT ![d] = Append(@, ListError)]
    /\ crashed' = TRUE
    /\ UNCHANGED <<host, request, responses, listed, killOp, removeOp, pullOp,
                   pullRef, runOp, runArgs, stopP, pullP, allP, deployP, incoming,
                   deployCalls, calls, host0>>

\* index.js:150 containers.forEach: the listing in the engine's order, the
\* most recently created container first
RECURSIVE InListOrder(_)
InListOrder(containers) ==
    IF containers = {} THEN <<>>
    ELSE LET first == CHOOSE c \in containers : \A o \in containers : o.id <= c.id
         IN  <<first>> \o InListOrder(containers \ {first})

\* index.js:150-155: the kill requests of one listing callback, in order
KillCalls(containers, pkgName) ==
    LET all == InListOrder(containers)
        hit == SelectSeq(all, LAMBDA c : c \in Matched(containers, pkgName))
    IN  [i \in 1..Len(hit) |-> KillCall(hit[i].id)]

\* docker.listContainers reports the running containers: the callback asks
\* the engine to kill every match (index.js:150-166)
ListDone(d) ==
    /\ ~crashed
    /\ listOp[d] = "pending"
    /\ LET containers == ListedContainers(host)
           pkgName    == request[d].package.val
           kills      == KillCalls(containers, pkgName)
       IN  /\ listOp' = [listOp EXCEPT ![d] = "done"]
           /\ listed' = [listed EXCEPT ![d] = containers]
           /\ killOp' = [killOp EXCEPT ![d] =
                 [c \in AllIds |->
                    IF \E i \in 1..Len(kills) : kills[i].target = c
                    THEN "pending" ELSE @[c]]]
           /\ stopP' = [stopP EXCEPT ![d] = StopAfterListing(@, containers, pkgName)]
           /\ UNCHANGED pullP
           /\ Join(d, kills)
    /\ UNCHANGED <<host, crashed, request, removeOp, pullOp, pullRef, errors, incoming,
                   deployCalls, host0>>

\* container.kill succeeds: the container stops; the callback asks the engine
\* to remove it (index.js:158). A dead process runs no callback.
KillDone(d, c) ==
    /\ killOp[d][c] = "pending"
    /\ KillPossible(host, c)
    /\ host' = Killed(host, c)
    /\ killOp' = [killOp EXCEPT ![d][c] = "done"]
    /\ removeOp' = [removeOp EXCEPT ![d][c] =
                       IF crashed THEN @ ELSE AfterKill(@, FALSE)]
    /\ calls' = [calls EXCEPT ![d] =
                    IF removeOp'[d][c] = removeOp[d][c] THEN @
                    ELSE Append(@, RemoveCall(c))]
    /\ UNCHANGED <<crashed, request, responses, listOp, listed, pullOp, pullRef,
                   runOp, runArgs, stopP, pullP, allP, deployP, errors, incoming,
                   deployCalls, host0>>

\* container.kill reports an error (the engine fails, or the container is no
\* longer running): the callback rejects containerStopped (index.js:156)
KillFailed(d, c) ==
    /\ killOp[d][c] = "pending"
    /\ killOp' = [killOp EXCEPT ![d][c] = "failed"]
    /\ IF crashed
       THEN UNCHANGED <<stopP, pullP, allP, deployP, responses, runOp, runArgs,
                        errors, calls, removeOp>>
       ELSE /\ errors' = [errors EXCEPT ![d] = Append(@, KillError)]
            /\ stopP' = [stopP EXCEPT ![d] = StopAfterError(@, KillError)]
            /\ removeOp' = [removeOp EXCEPT ![d][c] = AfterKill(@, TRUE)]
            /\ UNCHANGED pullP
            /\ Join(d, IF removeOp'[d][c] = removeOp[d][c] THEN <<>>
                       ELSE << RemoveCall(c) >>)
    /\ UNCHANGED <<host, crashed, request, listOp, listed, pullOp,
                   pullRef, incoming,
                   deployCalls, host0>>

\* container.remove succeeds: the container is gone; the callback resolves
\* containerStopped (index.js:162)
RemoveDone(d, c) ==
    /\ removeOp[d][c] = "pending"
    /\ RemovePossible(host, c)
    /\ host' = Removed(host, c)
    /\ removeOp' = [removeOp EXCEPT ![d][c] = "done"]
    /\ IF crashed
       THEN UNCHANGED <<stopP, pullP, allP, deployP, responses, runOp, runArgs,
                        calls>>
       ELSE /\ stopP' = [stopP EXCEPT ![d] = StopAfterRemoved(@)]
            /\ UNCHANGED pullP
            /\ Join(d, <<>>)
    /\ UNCHANGED <<crashed, request, listOp, listed, killOp, pullOp, pullRef,
                   errors, incoming,
                   deployCalls, host0>>

\* container.remove reports an error: the callback rejects containerStopped
\* (index.js:159)
RemoveFailed(d, c) ==
    /\ removeOp[d][c] = "pending"
    /\ removeOp' = [removeOp EXCEPT ![d][c] = "failed"]
    /\ IF crashed
       THEN UNCHANGED <<stopP, pullP, allP, deployP, responses, runOp, runArgs,
                        errors, calls>>
       ELSE /\ errors' = [errors EXCEPT ![d] = Append(@, RemoveError)]
            /\ stopP' = [stopP EXCEPT ![d] = StopAfterError(@, RemoveError)]
            /\ UNCHANGED pullP
            /\ Join(d, <<>>)
    /\ UNCHANGED <<host, crashed, request, listOp, listed, killOp, pullOp,
                   pullRef, incoming,
                   deployCalls, host0>>

----------------------------------------------------------------------------
(* dockerPull (index.js:182-205) *)

\* index.js:193 and 196: imagePulled after an error of docker.pull or of its
\* progress stream
PullAfterError(p, err) == Reject(p, err)

\* index.js:198: imagePulled once the stream has finished without error
PullAfterFinished(p) == Resolve(p)

\* docker.pull answers with the progress stream, which is then followed
\* (index.js:194)
PullStreaming(d) ==
    /\ ~crashed
    /\ pullOp[d] = "requested"
    /\ pullOp' = [pullOp EXCEPT ![d] = "streaming"]
    /\ UNCHANGED <<host, crashed, request, responses, listOp, listed, killOp,
                   removeOp, pullRef, runOp, runArgs, stopP, pullP, allP,
                   deployP, errors, incoming,
                   deployCalls, calls, host0>>

\* docker.pull reports an error (index.js:193)
PullFailed(d) ==
    /\ ~crashed
    /\ pullOp[d] = "requested"
    /\ pullOp' = [pullOp EXCEPT ![d] = "failed"]
    /\ errors' = [errors EXCEPT ![d] = Append(@, PullError)]
    /\ pullP' = [pullP EXCEPT ![d] = PullAfterError(@, PullError)]
    /\ UNCHANGED stopP
    /\ Join(d, <<>>)
    /\ UNCHANGED <<host, crashed, request, listOp, listed, killOp, removeOp,
                   pullRef, incoming,
                   deployCalls, host0>>

\* the progress stream ends with an error (index.js:196)
PullStreamFailed(d) ==
    /\ ~crashed
    /\ pullOp[d] = "streaming"
    /\ pullOp' = [pullOp EXCEPT ![d] = "failed"]
    /\ errors' = [errors EXCEPT ![d] = Append(@, StreamError)]
    /\ pullP' = [pullP EXCEPT ![d] = PullAfterError(@, StreamError)]
    /\ UNCHANGED stopP
    /\ Join(d, <<>>)
    /\ UNCHANGED <<host, crashed, request, listOp, listed, killOp, removeOp,
                   pullRef, incoming,
                   deployCalls, host0>>

\* the progress stream ends without error: the image is pulled (index.js:198)
PullFinished(d) ==
    /\ ~crashed
    /\ pullOp[d] = "streaming"
    /\ pullOp' = [pullOp EXCEPT ![d] = "done"]
    /\ pullP' = [pullP EXCEPT ![d] = PullAfterFinished(@)]
    /\ UNCHANGED stopP
    /\ Join(d, <<>>)
    /\ UNCHANGED <<host, crashed, request, listOp, listed, killOp, removeOp,
                   pullRef, errors, incoming,
                   deployCalls, host0>>

----------------------------------------------------------------------------
(* docker.run (index.js:119-126) *)

\* index.js:120: deployCompleted after the run callback reports an error
DeployAfterRunError(p, err) == Reject(p, err)

\* the engine accepts the run request: the new container is created and
\* started under the requested name
RunDone(d) ==
    /\ runOp[d] = "pending"
    /\ RunPossible(host, runArgs[d].name)
    /\ host' = Started(host, NewId(d), runArgs[d].image, runArgs[d].name)
    /\ runOp' = [runOp EXCEPT ![d] = "done"]
    /\ UNCHANGED <<crashed, request, responses, listOp, listed, killOp, removeOp,
                   pullOp, pullRef, runArgs, stopP, pullP, allP, deployP, errors, incoming,
                   deployCalls, calls, host0>>

\* the engine refuses the run request (the name is in use, or the engine
\* fails): the callback rejects deployCompleted (index.js:120), and the
\* request handler answers if that settles it
RunFailed(d) ==
    /\ runOp[d] = "pending"
    /\ runOp' = [runOp EXCEPT ![d] = "failed"]
    /\ LET err == IF RunPossible(host, runArgs[d].name) THEN RunError
                  ELSE NameConflict
           dp  == DeployAfterRunError(deployP[d], err)
       IN  IF crashed
           THEN UNCHANGED <<deployP, responses, errors>>
           ELSE /\ errors' = [errors EXCEPT ![d] = Append(@, err)]
                /\ deployP' = [deployP EXCEPT ![d] = dp]
                /\ responses' = [responses EXCEPT
                                    ![d] = @ \o ResponseBodies(deployP[d], dp)]
    /\ UNCHANGED <<host, crashed, request, listOp, listed, killOp, removeOp,
                   pullOp, pullRef, runArgs, stopP, pullP, allP, incoming,
                   deployCalls, calls, host0>>

----------------------------------------------------------------------------
(* Specification *)

Next ==
    \E d \in Deploys :
        \/ Receive(d)
        \/ ListFailed(d)
        \/ ListDone(d)
        \/ \E c \in AllIds : KillDone(d, c)
        \/ \E c \in AllIds : KillFailed(d, c)
        \/ \E c \in AllIds : RemoveDone(d, c)
        \/ \E c \in AllIds : RemoveFailed(d, c)
        \/ PullStreaming(d)
        \/ PullFailed(d)
        \/ PullStreamFailed(d)
        \/ PullFinished(d)
        \/ RunDone(d)
        \/ RunFailed(d)

Spec == Init /\ [][Next]_vars

\* Two webhooks for the same package are delivered to one server: nothing in
\* the request handler (index.js:76-96) waits for an earlier deployment.
OverlapPackage == <<"s">>

\* the running containers of the package found at start: one under the name
\* the deployer derives or under an operator's, a second under an operator's
OverlapContainers ==
    { [id |-> 1, image |-> OverlapPackage, name |-> n, state |-> "running"]
        : n \in HostNames(1) }
    \cup { [id |-> 2, image |-> OverlapPackage, name |-> ForeignName(2),
            state |-> "running"] }

\* the hosts that hold none, one or two of them
OverlapHosts == { h \in InitialHosts : h \subseteq OverlapContainers }

InitOverlap == InitWith({1, 2}) /\ host \in OverlapHosts

\* the webhook POSTs the package without a version
ReceiveOverlap(d) ==
    /\ Receive(d)
    /\ request'[d] = [received |-> TRUE, method |-> "POST",
                      package |-> Str(OverlapPackage), version |-> Undefined]

NextOverlap ==
    \E d \in Deploys :
        \/ ReceiveOverlap(d)
        \/ ListFailed(d)
        \/ ListDone(d)
        \/ \E c \in AllIds : KillDone(d, c)
        \/ \E c \in AllIds : KillFailed(d, c)
        \/ \E c \in AllIds : RemoveDone(d, c)
        \/ \E c \in AllIds : RemoveFailed(d, c)
        \/ PullStreaming(d)
        \/ PullFailed(d)
        \/ PullStreamFailed(d)
        \/ PullFinished(d)
        \/ RunDone(d)
        \/ RunFailed(d)

SpecOverlap == InitOverlap /\ [][NextOverlap]_vars

----------------------------------------------------------------------------
(* Vocabulary of the properties *)

\* dockerDeploy was called for request d
Dispatched(d) == deployCalls[d] # <<>>

\* the containers the listing of d reported whose image is d's package
MatchedIds(d) ==
    { c.id : c \in { l \in listed[d] : l.image = request[d].package.val } }

\* how many requests `op` on container `target` deployment d has issued
CountCalls(d, op, target) ==
    Cardinality({ i \in 1..Len(calls[d]) :
                    calls[d][i].op = op /\ calls[d][i].target = target })

\* no engine operation started for d is still outstanding
NoOpOutstanding(d) ==
    /\ listOp[d] # "pending"
    /\ pullOp[d] \notin { "requested", "streaming" }
    /\ runOp[d] # "pending"
    /\ \A c \in AllIds : killOp[d][c] # "pending" /\ removeOp[d][c] # "pending"

\* the errors of d's list, kill, remove and pull operations, in order
ForkErrors(d) ==
    SelectSeq(errors[d], LAMBDA e :
        e \in { ListError, KillError, RemoveError, PullError, StreamError })

\* the container instances of a package on a host
InstancesOf(h, pkgName) == { c \in h : c.image = pkgName }

----------------------------------------------------------------------------
(* Properties *)

\* C1: within one deployment the run request is issued only after the pull
\* has completed without error and every container whose image matched the
\* package has been stopped and removed; no matched container's stop or
\* removal is outstanding when run is issued.
C1_RunOnlyAfterPullAndAllStops ==
    \A d \in Deploys :
        runOp[d] # "idle" =>
            /\ pullOp[d] = "done"
            /\ \A c \in MatchedIds(d) :
                  killOp[d][c] = "done" /\ removeOp[d][c] = "done"

\* C2: if the pull fork fails (docker.pull or its progress stream reports an
\* error) the run request is never issued in that deployment, whatever the
\* stop fork's outcome and whichever fork settles first.
C2_PullFailureNeverRuns ==
    \A d \in Deploys :
        pullOp[d] = "failed" =>
            /\ runOp[d] = "idle"
            /\ CountCalls(d, "run", 0) = 0

\* C2 witness: the stop fork has removed a container and succeeded, and the
\* pull has failed.
C2_Witness ==
    \E d \in Deploys :
        /\ pullOp[d] = "failed"
        /\ stopP[d].state = "fulfilled"
        /\ \E c \in AllIds : removeOp[d][c] = "done"

\* C3: if the stop fork fails (the listing, or the stop or the removal of any
\* matched container, reports an error) the run request is never issued in
\* that deployment, whatever the pull fork's outcome and however many
\* containers matched.
C3_StopFailureNeverRuns ==
    \A d \in Deploys :
        ( \/ listOp[d] = "failed"
          \/ \E c \in AllIds : killOp[d][c] = "failed" \/ removeOp[d][c] = "failed" )
        => runOp[d] = "idle"

\* C4: a deployment answers "OK" only when the engine has accepted the run
\* request; when the engine refuses the run request (a name collision, say)
\* the outcome is a Failure carrying that error and the response is "ERROR"
\* plus the reason, never "OK". Stated of the states in which the engine has
\* answered the run request.
C4_SuccessOnlyWhenRunAccepted ==
    \A d \in Deploys :
        runOp[d] \in { "done", "failed" } =>
            /\ (\E i \in 1..Len(responses[d]) : responses[d][i] = "OK\n")
                  => runOp[d] = "done"
            /\ runOp[d] = "failed" =>
                  /\ deployP[d].state = "rejected"
                  /\ \E e \in { RunError, NameConflict } :
                        /\ deployP[d].reason = e
                        /\ responses[d] = << "ERROR\n" \o e >>

\* C5: whenever a list, stop, remove or pull operation of a deployment
\* reports an error, the deployment's outcome is a Failure carrying the error
\* of the first of them to fail and the response is "ERROR" plus that reason.
C5_ForkErrorsAreReported ==
    \A d \in Deploys :
        ForkErrors(d) # <<>> =>
            /\ deployP[d] = Rejected(ForkErrors(d)[1])
            /\ responses[d] = << "ERROR\n" \o ForkErrors(d)[1] >>

\* C6: once every engine operation started for a dispatched deployment has
\* completed (with a value or a failure), the deployment has an outcome and
\* its request a response: no completed operation leaves it pending forever.
C6_CompletedOperationsYieldOutcome ==
    \A d \in Deploys :
        (Dispatched(d) /\ NoOpOutstanding(d)) =>
            /\ deployP[d].state # "pending"
            /\ responses[d] # <<>>

\* C7: a request whose method is not POST, or whose body has no non-empty
\* `package`, is answered exactly "ILLEGAL REQUEST" and no list, stop, remove,
\* pull or run is ever issued for it; a POST with a non-empty `package` calls
\* dockerDeploy exactly once, with that package and version.
C7_OnlyLegalRequestsDeploy ==
    \A d \in Deploys :
        request[d].received =>
            IF /\ request[d].method = "POST"
               /\ request[d].package.present
               /\ Len(request[d].package.val) > 0
            THEN /\ deployCalls[d] = << [pkgName |-> request[d].package.val,
                                        version |-> request[d].version] >>
                 /\ \A i \in 1..Len(responses[d]) :
                        responses[d][i] # "ILLEGAL REQUEST\n"
            ELSE /\ responses[d] = << "ILLEGAL REQUEST\n" >>
                 /\ deployCalls[d] = <<>>
                 /\ calls[d] = <<>>
                 /\ listOp[d] = "idle" /\ pullOp[d] = "idle" /\ runOp[d] = "idle"
                 /\ \A c \in AllIds : killOp[d][c] = "idle" /\ removeOp[d][c] = "idle"

\* C7 witness: a GET that carries a package has been answered as illegal.
C7_Witness ==
    \E d \in Deploys :
        /\ request[d].received
        /\ request[d].method = "GET"
        /\ Truthy(request[d].package)
        /\ responses[d] = << "ILLEGAL REQUEST\n" >>

\* C8 as stated: once the stop fork's operations have completed, every listed
\* container whose image is the package has received one stop and one
\* remove, no other container has received either, and with no match the
\* fork has succeeded without a stop or a remove.
C8_EveryMatchStoppedAndRemoved ==
    \A d \in Deploys :
        (listOp[d] = "done" /\ NoOpOutstanding(d)) =>
            /\ \A c \in AllIds :
                  IF c \in MatchedIds(d)
                  THEN CountCalls(d, "kill", c) = 1 /\ CountCalls(d, "remove", c) = 1
                  ELSE CountCalls(d, "kill", c) = 0 /\ CountCalls(d, "remove", c) = 0
            /\ MatchedIds(d) = {} => stopP[d].state = "fulfilled"

\* C8 amended: the listing callback issues exactly one stop for every listed
\* container whose image is the package (no first-match short-circuit); each
\* of them receives exactly one remove once its stop has completed without
\* error and none before that or when its stop fails; no other container is
\* ever stopped or removed; with no match the fork succeeds without issuing
\* a stop or a remove.
C8_MatchesStoppedThenRemoved ==
    \A d \in Deploys :
        listOp[d] = "done" =>
            /\ \A c \in AllIds :
                  IF c \in MatchedIds(d)
                  THEN /\ CountCalls(d, "kill", c) = 1
                       /\ killOp[d][c] # "idle"
                       /\ CountCalls(d, "remove", c) =
                             (IF removeOp[d][c] # "idle" THEN 1 ELSE 0)
                       /\ (killOp[d][c] = "done" /\ ~crashed) => removeOp[d][c] # "idle"
                       /\ killOp[d][c] # "done" => removeOp[d][c] = "idle"
                  ELSE /\ CountCalls(d, "kill", c) = 0
                       /\ CountCalls(d, "remove", c) = 0
                       /\ killOp[d][c] = "idle" /\ removeOp[d][c] = "idle"
            /\ MatchedIds(d) = {} =>
                  /\ stopP[d].state = "fulfilled"
                  /\ \A i \in 1..Len(calls[d]) :
                        calls[d][i].op \notin { "kill", "remove" }

\* C8 witness: two listed containers matched and both have been stopped and
\* removed.
C8_Witness ==
    \E d \in Deploys :
        /\ Cardinality(MatchedIds(d)) = 2
        /\ \A c \in MatchedIds(d) :
              /\ killOp[d][c] = "done" /\ removeOp[d][c] = "done"
              /\ \A h \in host : h.id # c

\* the deployment d is over: its request is received and every engine
\* operation it started has settled
Settled(d) == request[d].received /\ NoOpOutstanding(d)

\* d is the only deployment, of a package with at most one container
\* instance on the host before it
AloneWithAtMostOneInstance(d) ==
    /\ Dispatched(d)
    /\ \A e \in Deploys \ {d} : ~request[e].received
    /\ Cardinality(InstancesOf(host0, request[d].package.val)) <= 1

\* C9 as stated: for a package with at most one container instance before a
\* deployment and no overlapping deployment, once the deployment and its
\* engine operations have settled at most one container instance of the
\* package exists on the host.
C9_AtMostOneInstanceAfter ==
    \A d \in Deploys :
        (AloneWithAtMostOneInstance(d) /\ Settled(d)) =>
            Cardinality(InstancesOf(host, request[d].package.val)) <= 1

\* C9 amended: under the same conditions at most one RUNNING container
\* instance of the package exists on the host (a container that had exited
\* before the deployment is not listed, so it is not removed).
C9_AtMostOneRunningAfter ==
    \A d \in Deploys :
        (AloneWithAtMostOneInstance(d) /\ Settled(d)) =>
            Cardinality({ c \in InstancesOf(host, request[d].package.val) :
                            c.state = "running" }) <= 1

\* C9 witness: the package's one running container was replaced: after the
\* deployment the only instance is the container the run request created.
C9_Witness ==
    \E d \in Deploys :
        /\ AloneWithAtMostOneInstance(d) /\ Settled(d)
        /\ \E c \in InstancesOf(host0, request[d].package.val) : c.state = "running"
        /\ runOp[d] = "done"
        /\ \A c \in InstancesOf(host, request[d].package.val) :
              c.id = NewId(d) /\ c.state = "running"
        /\ InstancesOf(host, request[d].package.val) # {}

\* C10: the image reference given to the run request is the reference pulled
\* in the same deployment: `package` without a version, `package:version`
\* with one.
C10_RunsThePulledReference ==
    \A d \in Deploys :
        runOp[d] # "idle" =>
            /\ runArgs[d].image = pullRef[d]
            /\ runArgs[d].image =
                  (IF request[d].version.present /\ Len(request[d].version.val) > 0
                   THEN request[d].package.val \o <<Colon>> \o request[d].version.val
                   ELSE request[d].package.val)

\* the substring of s after its last '/', the whole of s when it has none
AfterLastSlash(s) ==
    LET at == { i \in 1..Len(s) : s[i] = Slash }
    IN  IF at = {} THEN s
        ELSE SubSeq(s, (CHOOSE i \in at : \A j \in at : j <= i) + 1, Len(s))

\* C11: for every package the name given to the new container is the
\* substring of the package after its LAST '/' (the whole package when it has
\* none), also for a package with more than one '/'.
C11_NameAfterLastSlash ==
    \A d \in Deploys :
        runOp[d] # "idle" =>
            runArgs[d].name = AfterLastSlash(request[d].package.val)

\* C12: the reference given to pull is `package` alone when the request has
\* no version (none, or the empty string, which the code treats alike) and
\* `package:version` when it has one; the string compared with each listed
\* container's image is `package` alone whatever the version: the containers
\* asked to stop are exactly the listed ones whose image is the package.
C12_PullTaggedMatchUntagged ==
    \A d \in Deploys :
        Dispatched(d) =>
            LET package == request[d].package.val
                version == request[d].version
                wanted  == IF version.present /\ Len(version.val) > 0
                           THEN package \o <<Colon>> \o version.val
                           ELSE package
            IN  /\ pullRef[d] = wanted
                /\ \E i \in 1..Len(calls[d]) :
                      calls[d][i].op = "pull" /\ calls[d][i].ref = wanted
                /\ listOp[d] = "done" =>
                      \A c \in AllIds :
                          killOp[d][c] # "idle" <=>
                              \E l \in listed[d] : l.id = c /\ l.image = package

\* C12 witness: a request with a version has pulled package:version and has
\* asked to stop the listed container whose image is the bare package, while
\* a listed container whose image is package:version was left alone.
C12_Witness ==
    \E d \in Deploys :
        /\ Dispatched(d) /\ listOp[d] = "done"
        /\ Truthy(request[d].version)
        /\ pullRef[d] = request[d].package.val \o <<Colon>> \o request[d].version.val
        /\ \E l \in listed[d] : l.image = request[d].package.val /\ killOp[d][l.id] # "idle"
        /\ \E l \in listed[d] : l.image = pullRef[d] /\ killOp[d][l.id] = "idle"

\* an operation of d's stop fork (list, kill, remove) has reported an error
StopForkFailed(d) ==
    \/ listOp[d] = "failed"
    \/ \E c \in AllIds : killOp[d][c] = "failed" \/ removeOp[d][c] = "failed"

\* d's stop fork still has an operation outstanding
StopForkInProgress(d) ==
    \/ listOp[d] = "pending"
    \/ \E c \in AllIds : killOp[d][c] = "pending" \/ removeOp[d][c] = "pending"

\* d's pull fork has reported an error / is still outstanding
PullForkFailed(d)     == pullOp[d] = "failed"
PullForkInProgress(d) == pullOp[d] \in { "requested", "streaming" }

\* C13: when one of the two forks fails while the other is still in
\* progress, the deployment's outcome is already Failure and the response is
\* already sent, carrying a reason, and no run request has been issued.
C13_FailureShortCircuitsTheJoin ==
    \A d \in Deploys :
        ( \/ StopForkFailed(d) /\ PullForkInProgress(d)
          \/ PullForkFailed(d) /\ StopForkInProgress(d) )
        => /\ deployP[d].state = "rejected"
           /\ responses[d] = << "ERROR\n" \o deployP[d].reason >>
           /\ runOp[d] = "idle"

\* C14: no step is retried and nothing is rolled back: a deployment issues
\* list, pull and run at most once each and stop and remove at most once per
\* container; the only container a deployment ever adds to the host is the
\* one its accepted run request created, and no container that was not
\* running is started again; so when the old container was removed and the
\* pull or the run then fails, nothing stands in its place.
C14_NoRetryNoRollback ==
    /\ \A d \in Deploys :
          /\ \A op \in { "list", "pull", "run" } : CountCalls(d, op, 0) <= 1
          /\ \A c \in AllIds :
                CountCalls(d, "kill", c) <= 1 /\ CountCalls(d, "remove", c) <= 1
          /\ ( /\ \E c \in AllIds : removeOp[d][c] = "done"
               /\ pullOp[d] = "failed" \/ runOp[d] = "failed" )
             => /\ \A h \in host : h.id # NewId(d)
                /\ \A c \in AllIds : removeOp[d][c] = "done" => \A h \in host : h.id # c
    /\ \A h \in host :
          \/ \E h0 \in host0 :
                /\ h0.id = h.id /\ h0.image = h.image /\ h0.name = h.name
                /\ h.state = "running" => h0.state = "running"
          \/ \E d \in Deploys : h.id = NewId(d) /\ runOp[d] = "done"

\* C14 witness: the package's container was removed, the pull then failed,
\* everything has settled and the host holds no container of the package.
C14_Witness ==
    \E d \in Deploys :
        /\ \E c \in AllIds : removeOp[d][c] = "done"
        /\ pullOp[d] = "failed"
        /\ NoOpOutstanding(d)
        /\ InstancesOf(host0, request[d].package.val) # {}
        /\ InstancesOf(host, request[d].package.val) = {}

\* C15: two overlapping deployments of the same package are not mutually
\* excluded: a webhook that arrives while another deployment is in flight is
\* dispatched at once, and every outstanding step of a deployment can take
\* place whatever the other deployment is doing: the listing is answered, the
\* pull proceeds, a running container can be killed, a stopped one removed,
\* a run with a free name accepted.
C15_NotMutuallyExcluded ==
    \A d \in Deploys :
        /\ request[d].received => Dispatched(d) /\ calls[d] # <<>>
        /\ (~crashed /\ d \in incoming) => ENABLED ReceiveOverlap(d)
        /\ (~crashed /\ listOp[d] = "pending") => ENABLED ListDone(d)
        /\ (~crashed /\ pullOp[d] = "requested") => ENABLED PullStreaming(d)
        /\ (~crashed /\ pullOp[d] = "streaming") => ENABLED PullFinished(d)
        /\ \A c \in AllIds :
              /\ (killOp[d][c] = "pending" /\ KillPossible(host, c))
                    => ENABLED KillDone(d, c)
              /\ (removeOp[d][c] = "pending" /\ RemovePossible(host, c))
                    => ENABLED RemoveDone(d, c)
        /\ (runOp[d] = "pending" /\ RunPossible(host, runArgs[d].name))
              => ENABLED RunDone(d)

\* C15 witness: both deployments listed the same two running containers of
\* the package; each killed and removed one of them and was refused the kill
\* of the other, which its rival had stopped first; both pulls finished, both
\* deployments failed, everything has settled and no instance is left.
C15_Witness ==
    /\ \A d \in { 1, 2 } :
          /\ Dispatched(d) /\ Settled(d)
          /\ request[d].package.val = OverlapPackage
          /\ pullOp[d] = "done"
          /\ runOp[d] = "idle"
          /\ errors[d] = << KillError >>
    /\ Cardinality(InstancesOf(host0, OverlapPackage)) = 2
    /\ \E c, k \in AllIds :
          /\ c # k
          /\ killOp[1][c] = "done" /\ removeOp[1][c] = "done"
          /\ killOp[2][c] = "failed"
          /\ killOp[2][k] = "done" /\ removeOp[2][k] = "done"
          /\ killOp[1][k] = "failed"
    /\ InstancesOf(host, OverlapPackage) = {}

\* the bodies of the responses to a failed deployment
FailureBodies ==
    { "ERROR\n" \o e : e \in { KillError, RemoveError, PullError, StreamError,
                               RunError, NameConflict } }

\* C16: the response to a failed deployment carries a status that differs
\* from the status of the response to a successful one, and the response to
\* an illegal request a status that differs from both.
C16_StatusTellsOutcomesApart ==
    \A d \in Deploys : \A i \in 1..Len(responses[d]) :
        LET body == responses[d][i]
        IN  /\ body \in FailureBodies => StatusCode(body) # StatusCode("OK\n")
            /\ body = "ILLEGAL REQUEST\n" =>
                  /\ StatusCode(body) # StatusCode("OK\n")
                  /\ \A f \in FailureBodies : StatusCode(body) # StatusCode(f)

\* a deployment's outcome, once deployCompleted has settled
Outcome(d) == deployP[d]

\* C17: a deployment yields at most one outcome and its request receives at
\* most one response, the one that tells that outcome; once deployCompleted
\* has settled, no later step changes it or writes another response.
C17_OneTerminalOutcome ==
    /\ [](\A d \in Deploys :
            /\ Len(responses[d]) <= 1
            /\ Dispatched(d) =>
                 /\ Outcome(d).state = "pending" => responses[d] = <<>>
                 /\ Outcome(d).state = "fulfilled" => responses[d] = << "OK\n" >>
                 /\ Outcome(d).state = "rejected" =>
                       responses[d] = << "ERROR\n" \o Outcome(d).reason >>)
    /\ [][\A d \in Deploys :
            Outcome(d).state # "pending" =>
                /\ deployP'[d] = deployP[d]
                /\ responses'[d] = responses[d]]_vars

\* C17 witness: Success was yielded and answered "OK"; afterwards the kill of
\* a second matched container failed and the run callback reported an error,
\* and the outcome and the single response are still those.
C17_Witness ==
    \E d \in Deploys :
        /\ Outcome(d) = Fulfilled
        /\ responses[d] = << "OK\n" >>
        /\ runOp[d] = "failed"
        /\ \E c \in AllIds : killOp[d][c] = "failed"
        /\ Len(errors[d]) >= 2

\* the position of the first request `op` on container `target` in the
\* requests of deployment d, 0 if there is none
FirstCall(d, op, target) ==
    LET at == { i \in 1..Len(calls[d]) :
                  calls[d][i].op = op /\ calls[d][i].target = target }
    IN  IF at = {} THEN 0 ELSE CHOOSE i \in at : \A j \in at : i <= j

\* C18: in the stop fork the removal of a container is requested only after
\* the kill of that same container has completed without error, and after the
\* kill request in the order of the engine requests; a container whose kill
\* is outstanding or reported an error has no removal requested.
C18_RemoveOnlyAfterKillSucceeded ==
    \A d \in Deploys : \A c \in AllIds :
        /\ (removeOp[d][c] # "idle" \/ CountCalls(d, "remove", c) > 0) =>
              /\ killOp[d][c] = "done"
              /\ c \in MatchedIds(d)
              /\ 0 < FirstCall(d, "kill", c)
              /\ FirstCall(d, "kill", c) < FirstCall(d, "remove", c)
        /\ killOp[d][c] # "done" =>
              removeOp[d][c] = "idle" /\ CountCalls(d, "remove", c) = 0

\* C18 witness: of two matched containers one was killed and its removal
\* requested, the other's kill reported an error and no removal of it was
\* requested, and nothing is outstanding any more.
C18_Witness ==
    \E d \in Deploys : \E c, k \in AllIds :
        /\ killOp[d][c] = "done" /\ CountCalls(d, "remove", c) = 1
        /\ killOp[d][k] = "failed" /\ CountCalls(d, "remove", k) = 0
        /\ NoOpOutstanding(d)

====
